---------------------------- MODULE Spec2Model ----------------------------
(***************************************************************************)
(* topobin: binary codec for TopoJSON topologies.                          *)
(*                                                                         *)
(* encode (src/src/encoder.ts), getVersion / isCompatibleVersion / decode  *)
(* / BinaryTopologyView (src/unnamed/part_001, the decoder module) and the *)
(* layout constants (src/src/constants.ts), modelled at the level of the   *)
(* bytes of the ArrayBuffer.                                               *)
(*                                                                         *)
(* Conventions.  A buffer is a sequence of bytes; the byte at the 0-based  *)
(* offset o of the source is buf[o + 1].  A JavaScript number is an        *)
(* integer-valued double n with |n| <= 2^31, written Num(n) = << n >>; any *)
(* other double is the sequence of its 8 bytes; `undefined`, `null` and an *)
(* absent optional field are the empty sequence.  A string is the sequence *)
(* of its code points.  A call that throws returns a record with           *)
(* kind = "error" and the error thrown.                                    *)
(***************************************************************************)
EXTENDS Integers, Sequences, FiniteSets, TLC

(***************************************************************************)
(* Bounds of the model.                                                    *)
(***************************************************************************)
MaxArcs == 2          \* arcs per topology
MaxArcLen == 2        \* points per arc
MaxRawLen == 8        \* length of the truncated hand-made buffers

(***************************************************************************)
(* constants.ts                                                            *)
(***************************************************************************)
MAGIC == 1414484047                      \* 0x544F504F, "TOPO"
MIN_SUPPORTED_VERSION == 1
MAX_SUPPORTED_VERSION == 1

\* Mutant: the encoder writes a version the readers do not support yet.
VERSION_Unsupported == MAX_SUPPORTED_VERSION + 1
VERSION == 1
FLAG_HAS_TRANSFORM == 1
FLAG_HAS_BBOX == 2
HeaderSize == 24                         \* encoder.ts: const headerSize = 24

Undefined == << >>
Null == << >>
Absent == << >>
Num(n) == << n >>
IsNum(v) == Len(v) = 1

(***************************************************************************)
(* Sequences of bytes.                                                     *)
(***************************************************************************)
Pow2(k) == 2 ^ k

Reverse(s) == [i \in 1..Len(s) |-> s[Len(s) + 1 - i]]

Zeros(n) == [i \in 1..n |-> 0]

RECURSIVE Flatten(_)
Flatten(ss) == IF ss = <<>> THEN <<>> ELSE Head(ss) \o Flatten(Tail(ss))

\* The bytes of buf from the 0-based offset off, len of them.
Slice(buf, off, len) == SubSeq(buf, off + 1, off + len)

\* buf with bytes written at the 0-based offset off (view.setXxx, typedArray.set,
\* typedArray[i] = v all write in place into the zero-filled ArrayBuffer).
Write(buf, off, bytes) ==
    [i \in 1..Len(buf) |->
        IF off < i /\ i <= off + Len(bytes) THEN bytes[i - off] ELSE buf[i]]

\* An access of size bytes at offset off lies inside the buffer (DataView
\* getters throw a RangeError otherwise).
InBounds(buf, off, size) == off >= 0 /\ off + size <= Len(buf)

\* new XxxArray(buffer, byteOffset, length) throws a RangeError unless the
\* offset is a multiple of the element size and the elements fit the buffer.
TypedArrayOk(buf, off, len, size) ==
    /\ off % size = 0
    /\ off + len * size <= Len(buf)

(***************************************************************************)
(* Fixed-width numbers.  The big-endian byte sequence of each type; the    *)
(* DataView calls of the source all pass littleEndian = false, the typed   *)
(* arrays (Uint32Array, Int32Array, Float64Array) use the byte order of    *)
(* the platform.                                                           *)
(***************************************************************************)
ByteOrder(bytes, le) == IF le THEN Reverse(bytes) ELSE bytes

U16Bytes(n) == << (n \div 256) % 256, n % 256 >>
U16Value(b) == b[1] * 256 + b[2]

U32Bytes(n) ==
    << (n \div 16777216) % 256, (n \div 65536) % 256, (n \div 256) % 256, n % 256 >>
U32Value(b) == ((b[1] * 256 + b[2]) * 256 + b[3]) * 256 + b[4]

\* Two's complement, 32 bits.
I32Bytes(n) ==
    IF n >= 0 THEN U32Bytes(n)
    ELSE LET m == U32Bytes(-(n + 1)) IN [i \in 1..4 |-> 255 - m[i]]
I32Value(b) ==
    IF b[1] < 128 THEN U32Value(b)
    ELSE -(U32Value([i \in 1..4 |-> 255 - b[i]])) - 1

MinInt32 == -2147483647 - 1

\* floor(log2(a)) for 1 <= a < 2^31
RECURSIVE Log2(_)
Log2(a) == IF a < 2 THEN 0 ELSE 1 + Log2(a \div 2)

\* IEEE 754 binary64 of an integer n, |n| <= 2^31: sign, 11 bits of biased
\* exponent, 52 bits of fraction of which an integer below 2^31 uses the top 30.
F64Fields(s, e, g) ==
    LET E == 1023 + e
    IN  << s * 128 + E \div 16,
           (E % 16) * 16 + g \div Pow2(26),
           (g \div Pow2(18)) % 256,
           (g \div Pow2(10)) % 256,
           (g \div 4) % 256,
           (g % 4) * 64,
           0, 0 >>

F64Bytes(n) ==
    IF n = 0 THEN Zeros(8)
    ELSE IF n = MinInt32 THEN F64Fields(1, 31, 0)
    ELSE LET a == IF n < 0 THEN -n ELSE n
             e == Log2(a)
         IN  F64Fields(IF n < 0 THEN 1 ELSE 0, e, (a - Pow2(e)) * Pow2(30 - e))

\* The number a binary64 bit pattern denotes: Num(n) when it is an integer of
\* the model; any other pattern (a fraction, a larger magnitude, NaN, ...) is
\* kept as its 8 bytes.
F64Value(b) ==
    LET s == b[1] \div 128
        E == (b[1] % 128) * 16 + b[2] \div 16
        e == E - 1023
        g == ((((b[2] % 16) * 256 + b[3]) * 256 + b[4]) * 256 + b[5]) * 4 + b[6] \div 64
    IN  IF b = Zeros(8) THEN Num(0)
        ELSE IF b[6] % 64 # 0 \/ b[7] # 0 \/ b[8] # 0 THEN b
        ELSE IF e = 31 /\ s = 1 /\ g = 0 THEN Num(MinInt32)
        ELSE IF e < 0 \/ e > 30 THEN b
        ELSE IF g % Pow2(30 - e) # 0 THEN b
        ELSE LET a == Pow2(e) + g \div Pow2(30 - e)
             IN  Num(IF s = 1 THEN -a ELSE a)

\* DataView getters, bounds already checked by the caller.
GetUint16(buf, off, le) == U16Value(ByteOrder(Slice(buf, off, 2), le))
GetUint32(buf, off, le) == U32Value(ByteOrder(Slice(buf, off, 4), le))
GetFloat64(buf, off, le) == F64Value(ByteOrder(Slice(buf, off, 8), le))

\* Element k of a typed array of len elements at byte offset off: undefined
\* outside 0..len-1, no exception.
Uint32At(buf, off, len, k, le) ==
    IF k < 0 \/ k >= len THEN Undefined
    ELSE Num(U32Value(ByteOrder(Slice(buf, off + 4 * k, 4), le)))
\* Mutant: the coordinates read through an Int16Array-like view (the low 16 bits).
Int32At_Low16(buf, off, len, k, le) ==
    IF k < 0 \/ k >= len THEN Undefined
    ELSE Num(U16Value(SubSeq(ByteOrder(Slice(buf, off + 4 * k, 4), le), 3, 4)))
Int32At(buf, off, len, k, le) ==
    IF k < 0 \/ k >= len THEN Undefined
    ELSE Num(I32Value(ByteOrder(Slice(buf, off + 4 * k, 4), le)))
Float64At(buf, off, len, k, le) ==
    IF k < 0 \/ k >= len THEN Undefined
    ELSE F64Value(ByteOrder(Slice(buf, off + 8 * k, 8), le))

(***************************************************************************)
(* Text.  TextEncoder / TextDecoder (UTF-8, code points below U+0800) and  *)
(* JSON.stringify / JSON.parse of the objects payload {names, objects}.    *)
(* A geometry is opaque to the codec: it is a value 0..9 whose JSON text   *)
(* is its digit.  Names are free of quotes, backslashes and controls.      *)
(***************************************************************************)
Utf8Char(cp) == IF cp < 128 THEN << cp >> ELSE << 192 + (cp \div 64), 128 + (cp % 64) >>

TextEncode(str) == Flatten([i \in 1..Len(str) |-> Utf8Char(str[i])])

RECURSIVE TextDecode(_)
TextDecode(bytes) ==
    IF bytes = <<>> THEN <<>>
    ELSE LET b == bytes[1] IN
         IF b < 128 THEN << b >> \o TextDecode(Tail(bytes))
         ELSE IF /\ b >= 194 /\ b <= 223 /\ Len(bytes) >= 2
                 /\ bytes[2] >= 128 /\ bytes[2] <= 191
              THEN << (b - 192) * 64 + (bytes[2] - 128) >> \o TextDecode(Tail(Tail(bytes)))
              ELSE << 65533 >> \o TextDecode(Tail(bytes))

Quoted(str) == << 34 >> \o str \o << 34 >>

RECURSIVE JoinComma(_)
JoinComma(parts) ==
    IF parts = <<>> THEN <<>>
    ELSE IF Len(parts) = 1 THEN parts[1]
    ELSE parts[1] \o << 44 >> \o JoinComma(Tail(parts))

NamesOpen == << 123, 34, 110, 97, 109, 101, 115, 34, 58, 91 >>                 \* {"names":[
ObjectsOpen == << 93, 44, 34, 111, 98, 106, 101, 99, 116, 115, 34, 58, 123 >>  \* ],"objects":{
ObjectsClose == << 125, 125 >>                                                 \* }}

\* Object.keys(topology.objects): the names in insertion order.
ObjectKeys(objects) == [i \in 1..Len(objects) |-> objects[i].name]

\* JSON.stringify({ names: objectNames, objects: topology.objects })
JSONStringify(names, objects) ==
    NamesOpen
      \o JoinComma([i \in 1..Len(names) |-> Quoted(names[i])])
      \o ObjectsOpen
      \o JoinComma([i \in 1..Len(objects) |->
                      Quoted(objects[i].name) \o << 58, 48 + objects[i].geom >>])
      \o ObjectsClose

SyntaxError == [ok |-> FALSE]

HasLit(text, i, lit) ==
    /\ i + Len(lit) - 1 <= Len(text)
    /\ SubSeq(text, i, i + Len(lit) - 1) = lit

\* The position of the quote that closes the string opened at i - 1.
RECURSIVE CloseQuote(_, _)
CloseQuote(text, j) ==
    IF j > Len(text) THEN 0
    ELSE IF text[j] = 34 THEN j
    ELSE IF text[j] = 92 \/ text[j] < 32 THEN 0
    ELSE CloseQuote(text, j + 1)

ParseString(text, i) ==
    IF i > Len(text) \/ text[i] # 34 THEN SyntaxError
    ELSE LET j == CloseQuote(text, i + 1)
         IN  IF j = 0 THEN SyntaxError
             ELSE [ok |-> TRUE, str |-> SubSeq(text, i + 1, j - 1), next |-> j + 1]

\* ["a","b"] from the position after the bracket; next is the position of "]".
RECURSIVE ParseNames(_, _, _)
ParseNames(text, i, acc) ==
    IF acc = <<>> /\ i <= Len(text) /\ text[i] = 93 THEN [ok |-> TRUE, names |-> acc, next |-> i]
    ELSE LET s == ParseString(text, i) IN
         IF ~s.ok \/ s.next > Len(text) THEN SyntaxError
         ELSE IF text[s.next] = 44 THEN ParseNames(text, s.next + 1, Append(acc, s.str))
         ELSE IF text[s.next] = 93
              THEN [ok |-> TRUE, names |-> Append(acc, s.str), next |-> s.next]
              ELSE SyntaxError

\* A later member of the same name replaces the value and keeps the position.
PutMember(acc, name, geom) ==
    IF \E k \in 1..Len(acc) : acc[k].name = name
    THEN [k \in 1..Len(acc) |->
            IF acc[k].name = name THEN [name |-> name, geom |-> geom] ELSE acc[k]]
    ELSE Append(acc, [name |-> name, geom |-> geom])

\* {"a":1,"b":2} from the position after the brace; next is the position of "}".
RECURSIVE ParseMembers(_, _, _)
ParseMembers(text, i, acc) ==
    IF acc = <<>> /\ i <= Len(text) /\ text[i] = 125
    THEN [ok |-> TRUE, objects |-> acc, next |-> i]
    ELSE LET s == ParseString(text, i) IN
         IF ~s.ok \/ s.next + 2 > Len(text) THEN SyntaxError
         ELSE IF text[s.next] # 58 \/ text[s.next + 1] < 48 \/ text[s.next + 1] > 57
              THEN SyntaxError
         ELSE LET put == PutMember(acc, s.str, text[s.next + 1] - 48)
                  k == s.next + 2
              IN  IF text[k] = 44 THEN ParseMembers(text, k + 1, put)
                  ELSE IF text[k] = 125 THEN [ok |-> TRUE, objects |-> put, next |-> k]
                  ELSE SyntaxError

\* JSON.parse of the payload: [ok, names, objects], or a SyntaxError.
JSONParse(text) ==
    IF ~HasLit(text, 1, NamesOpen) THEN SyntaxError
    ELSE LET n == ParseNames(text, Len(NamesOpen) + 1, <<>>) IN
         IF ~n.ok \/ ~HasLit(text, n.next, ObjectsOpen) THEN SyntaxError
         ELSE LET m == ParseMembers(text, n.next + Len(ObjectsOpen), <<>>) IN
              IF ~m.ok \/ ~HasLit(text, m.next, ObjectsClose) THEN SyntaxError
              ELSE IF m.next + 1 # Len(text) THEN SyntaxError
              ELSE [ok |-> TRUE, names |-> n.names, objects |-> m.objects]

(***************************************************************************)
(* encode (encoder.ts)                                                     *)
(***************************************************************************)
RECURSIVE SumLen(_)
SumLen(arcs) == IF arcs = <<>> THEN 0 ELSE Len(Head(arcs)) + SumLen(Tail(arcs))

\* Math.ceil(n / 4) * 4
CeilTo4(n) == ((n + 3) \div 4) * 4

\* The bytes a typed array stores for a number: Float64Array keeps the double,
\* Int32Array converts with ToInt32 (the identity on 32-bit integers; a double
\* that is no integer of the model is outside the encoder's contract).
F64Store(v) == IF IsNum(v) THEN F64Bytes(v[1]) ELSE v
I32Store(v) == IF IsNum(v) THEN I32Bytes(v[1]) ELSE Zeros(4)

\* Mutant: the names are stored without the zero that ends them.
buildStringTable_NoTerminator(topology) ==
    LET names == ObjectKeys(topology.objects)
    IN  Flatten([i \in 1..Len(names) |-> TextEncode(names[i])])

\* encoder.ts buildStringTable: every object name, UTF-8, followed by a zero.
buildStringTable(topology) ==
    LET names == ObjectKeys(topology.objects)
    IN  Flatten([i \in 1..Len(names) |-> TextEncode(names[i] \o << 0 >>)])

\* The sizes and offsets encode computes before it allocates the buffer
\* (encoder.ts lines 8-56).
EncodeLayout(topology) ==
    LET hasTransform == topology.transform # Absent
        hasBBox == topology.bbox # Absent
        numArcs == Len(topology.arcs)
        totalArcPoints == SumLen(topology.arcs)
        objectNames == ObjectKeys(topology.objects)
        stringTableSize == Len(buildStringTable(topology))
        stringTablePadded == CeilTo4(stringTableSize)
        stringTableStart == HeaderSize + (IF hasTransform THEN 32 ELSE 0)
                                       + (IF hasBBox THEN 32 ELSE 0)
        arcOffsetsStart == stringTableStart + stringTablePadded
        arcOffsetsSize == (numArcs + 1) * 4
        offset == arcOffsetsStart + arcOffsetsSize
        bytesPerCoord == IF hasTransform THEN 4 ELSE 8
        arcDataStart == IF bytesPerCoord = 8 /\ offset % 8 # 0 THEN offset + 4 ELSE offset
        arcDataSize == totalArcPoints * 2 * bytesPerCoord
        objectsData == TextEncode(JSONStringify(objectNames, topology.objects))
    IN  [hasTransform |-> hasTransform, hasBBox |-> hasBBox,
         numArcs |-> numArcs, totalArcPoints |-> totalArcPoints,
         numObjects |-> Len(objectNames),
         stringTableSize |-> stringTableSize, stringTablePadded |-> stringTablePadded,
         stringTableStart |-> stringTableStart,
         arcOffsetsStart |-> arcOffsetsStart, arcOffsetsSize |-> arcOffsetsSize,
         bytesPerCoord |-> bytesPerCoord,
         arcDataStart |-> arcDataStart, arcDataSize |-> arcDataSize,
         objectsStart |-> arcDataStart + arcDataSize,
         objectsData |-> objectsData, objectsSize |-> Len(objectsData),
         byteLength |-> arcDataStart + arcDataSize + 4 + Len(objectsData)]

\* Mutant: every entry holds the length of the arc before it, not the running
\* total.
ArcPointOffsets_PerArc(arcs) ==
    [i \in 1..Len(arcs) + 1 |-> IF i = 1 THEN 0 ELSE Len(arcs[i - 1])]

\* arcOffsets[i] for i = 0..numArcs: the number of points before arc i.
ArcPointOffsets(arcs) == [i \in 1..Len(arcs) + 1 |-> SumLen(SubSeq(arcs, 1, i - 1))]

\* x0, y0, x1, y1, ... of all arcs in order.
ArcCoordinates(arcs) ==
    Flatten([i \in 1..Len(arcs) |->
               Flatten([j \in 1..Len(arcs[i]) |-> << arcs[i][j][1], arcs[i][j][2] >>])])

\* encode(topology) on a platform whose typed arrays are little-endian (le)
\* or big-endian.
encode(topology, le) ==
    LET L == EncodeLayout(topology)
        flags == (IF L.hasTransform THEN FLAG_HAS_TRANSFORM ELSE 0)
                   + (IF L.hasBBox THEN FLAG_HAS_BBOX ELSE 0)
        header == U32Bytes(MAGIC) \o U16Bytes(VERSION) \o U16Bytes(flags)
                    \o U32Bytes(L.numArcs) \o U32Bytes(L.totalArcPoints)
                    \o U32Bytes(L.numObjects) \o U32Bytes(L.stringTableSize)
        transform == IF L.hasTransform
                     THEN F64Store(topology.transform[1][1]) \o F64Store(topology.transform[1][2])
                            \o F64Store(topology.transform[2][1])
                            \o F64Store(topology.transform[2][2])
                     ELSE <<>>
        bbox == IF L.hasBBox
                THEN Flatten([i \in 1..4 |-> F64Store(topology.bbox[i])])
                ELSE <<>>
        offsets == ArcPointOffsets(topology.arcs)
        arcOffsets == Flatten([i \in 1..Len(offsets) |-> ByteOrder(U32Bytes(offsets[i]), le)])
        coords == ArcCoordinates(topology.arcs)
        arcData == Flatten([i \in 1..Len(coords) |->
                              ByteOrder(IF L.hasTransform THEN I32Store(coords[i])
                                                          ELSE F64Store(coords[i]), le)])
        b0 == Zeros(L.byteLength)
        b1 == Write(b0, 0, header)
        b2 == Write(b1, HeaderSize, transform \o bbox)
        b3 == Write(b2, L.stringTableStart, buildStringTable(topology))
        b4 == Write(b3, L.arcOffsetsStart, arcOffsets)
        b5 == Write(b4, L.arcDataStart, arcData)
        b6 == Write(b5, L.objectsStart, U32Bytes(L.objectsSize))
    IN  Write(b6, L.objectsStart + 4, L.objectsData)

(***************************************************************************)
(* Errors thrown by the readers.                                           *)
(***************************************************************************)
Thrown(name, message, args) ==
    [kind |-> "error", error |-> [name |-> name, message |-> message, args |-> args]]

BadMagicError == Thrown("Error", "Invalid TopoJSON binary format: bad magic number", <<>>)

\* `${n}` in a template literal: the decimal digits of a non-negative integer,
\* as character codes, without leading zeros.
RECURSIVE Digits(_)
Digits(n) == IF n < 10 THEN << 48 + n >> ELSE Append(Digits(n \div 10), 48 + (n % 10))

\* The error of part_001 lines 56-60; args holds the message after its first
\* words, piece by piece.
VersionError(version) ==
    Thrown("Error", "Unsupported binary format version",
           << Digits(version),
              ". This library supports versions ",
              Digits(MIN_SUPPORTED_VERSION), "-", Digits(MAX_SUPPORTED_VERSION),
              ". Please upgrade the topobin library to decode this file." >>)
IndexError(index) == Thrown("Error", "Arc index out of bounds", << index >>)
RangeError == Thrown("RangeError", "", <<>>)
JSONSyntaxError == Thrown("SyntaxError", "", <<>>)

(***************************************************************************)
(* getMemoryStats (encoder.ts lines 167-209)                               *)
(***************************************************************************)
InvalidMagicError == Thrown("Error", "Invalid magic number", <<>>)

\* Mutant: arcBytes leaves out the arc-offset table.
getMemoryStats_NoOffsetTable(buffer) ==
    IF ~InBounds(buffer, 0, 4) THEN RangeError
    ELSE IF GetUint32(buffer, 0, FALSE) # MAGIC THEN InvalidMagicError
    ELSE IF ~InBounds(buffer, 4, HeaderSize - 4) THEN RangeError
    ELSE
    LET flags == GetUint16(buffer, 6, FALSE)
        numArcs == GetUint32(buffer, 8, FALSE)
        totalArcPoints == GetUint32(buffer, 12, FALSE)
        stringTableSize == GetUint32(buffer, 20, FALSE)
        hasTransform == (flags \div FLAG_HAS_TRANSFORM) % 2 # 0
        hasBBox == (flags \div FLAG_HAS_BBOX) % 2 # 0
        headerBytes == 24 + (IF hasTransform THEN 32 ELSE 0) + (IF hasBBox THEN 32 ELSE 0)
                          + stringTableSize
        bytesPerCoord == IF hasTransform THEN 4 ELSE 8
        arcBytes == totalArcPoints * 2 * bytesPerCoord
    IN  [kind |-> "ok", totalBytes |-> Len(buffer), headerBytes |-> headerBytes,
         arcBytes |-> arcBytes, objectBytes |-> Len(buffer) - headerBytes - arcBytes]

getMemoryStats(buffer) ==
    IF ~InBounds(buffer, 0, 4) THEN RangeError
    ELSE IF GetUint32(buffer, 0, FALSE) # MAGIC THEN InvalidMagicError
    ELSE IF ~InBounds(buffer, 4, HeaderSize - 4) THEN RangeError
    ELSE
    LET flags == GetUint16(buffer, 6, FALSE)
        numArcs == GetUint32(buffer, 8, FALSE)
        totalArcPoints == GetUint32(buffer, 12, FALSE)
        stringTableSize == GetUint32(buffer, 20, FALSE)
        hasTransform == (flags \div FLAG_HAS_TRANSFORM) % 2 # 0
        hasBBox == (flags \div FLAG_HAS_BBOX) % 2 # 0
        headerBytes == 24 + (IF hasTransform THEN 32 ELSE 0) + (IF hasBBox THEN 32 ELSE 0)
                          + stringTableSize
        arcOffsetsSize == (numArcs + 1) * 4
        bytesPerCoord == IF hasTransform THEN 4 ELSE 8
        arcDataSize == totalArcPoints * 2 * bytesPerCoord
        arcBytes == arcOffsetsSize + arcDataSize
    IN  [kind |-> "ok", totalBytes |-> Len(buffer), headerBytes |-> headerBytes,
         arcBytes |-> arcBytes, objectBytes |-> Len(buffer) - headerBytes - arcBytes]

(***************************************************************************)
(* getVersion, isCompatibleVersion (part_001 lines 14-39)                  *)
(***************************************************************************)
\* Mutant: the version field read little-endian.
getVersion_LittleEndian(buffer) ==
    IF Len(buffer) < 6 THEN [kind |-> "ok", value |-> Null]
    ELSE IF GetUint32(buffer, 0, FALSE) # MAGIC THEN [kind |-> "ok", value |-> Null]
    ELSE [kind |-> "ok", value |-> Num(GetUint16(buffer, 4, TRUE))]

getVersion(buffer) ==
    IF Len(buffer) < 6 THEN [kind |-> "ok", value |-> Null]
    ELSE IF ~InBounds(buffer, 0, 4) THEN RangeError
    ELSE IF GetUint32(buffer, 0, FALSE) # MAGIC THEN [kind |-> "ok", value |-> Null]
    ELSE IF ~InBounds(buffer, 4, 2) THEN RangeError
    ELSE [kind |-> "ok", value |-> Num(GetUint16(buffer, 4, FALSE))]

\* Mutant: the lower end of the supported range is not checked.
isCompatibleVersion_NoMin(buffer) ==
    LET version == getVersion(buffer)
    IN  IF version.kind = "error" THEN version
        ELSE IF version.value = Null THEN [kind |-> "ok", value |-> FALSE]
        ELSE [kind |-> "ok", value |-> version.value[1] <= MAX_SUPPORTED_VERSION]

isCompatibleVersion(buffer) ==
    LET version == getVersion(buffer)
    IN  IF version.kind = "error" THEN version
        ELSE IF version.value = Null THEN [kind |-> "ok", value |-> FALSE]
        ELSE [kind |-> "ok",
              value |-> /\ version.value[1] >= MIN_SUPPORTED_VERSION
                        /\ version.value[1] <= MAX_SUPPORTED_VERSION]

(***************************************************************************)
(* The header as decode and the BinaryTopologyView constructor read it     *)
(* (part_001 lines 47-70 and 200-222): the error thrown, or the fields.    *)
(***************************************************************************)
\* Mutant: the magic read little-endian.
ReadHeader_LittleEndianMagic(buffer) ==
    IF ~InBounds(buffer, 0, 4) THEN RangeError
    ELSE IF GetUint32(buffer, 0, TRUE) # MAGIC THEN BadMagicError
    ELSE IF ~InBounds(buffer, 4, 2) THEN RangeError
    ELSE LET version == GetUint16(buffer, 4, FALSE) IN
         IF version < MIN_SUPPORTED_VERSION \/ version > MAX_SUPPORTED_VERSION
         THEN VersionError(version)
         ELSE RangeError

\* Mutant: the version is read and checked before the magic.
ReadHeader_VersionFirst(buffer) ==
    IF ~InBounds(buffer, 4, 2) THEN RangeError
    ELSE LET version == GetUint16(buffer, 4, FALSE) IN
         IF version < MIN_SUPPORTED_VERSION \/ version > MAX_SUPPORTED_VERSION
         THEN VersionError(version)
         ELSE IF GetUint32(buffer, 0, FALSE) # MAGIC THEN BadMagicError
         ELSE IF ~InBounds(buffer, 6, HeaderSize - 6) THEN RangeError
         ELSE LET flags == GetUint16(buffer, 6, FALSE) IN
              [kind |-> "ok",
               numArcs |-> GetUint32(buffer, 8, FALSE),
               totalArcPoints |-> GetUint32(buffer, 12, FALSE),
               numObjects |-> GetUint32(buffer, 16, FALSE),
               stringTableSize |-> GetUint32(buffer, 20, FALSE),
               hasTransform |-> (flags \div FLAG_HAS_TRANSFORM) % 2 # 0,
               hasBBox |-> (flags \div FLAG_HAS_BBOX) % 2 # 0]

\* Mutant: the version is checked against the minimum only.
ReadHeader_NoMax(buffer) ==
    IF ~InBounds(buffer, 0, 4) THEN RangeError
    ELSE IF GetUint32(buffer, 0, FALSE) # MAGIC THEN BadMagicError
    ELSE IF ~InBounds(buffer, 4, 2) THEN RangeError
    ELSE LET version == GetUint16(buffer, 4, FALSE) IN
         IF version < MIN_SUPPORTED_VERSION
         THEN VersionError(version)
         ELSE IF ~InBounds(buffer, 6, HeaderSize - 6) THEN RangeError
         ELSE LET flags == GetUint16(buffer, 6, FALSE) IN
              [kind |-> "ok",
               numArcs |-> GetUint32(buffer, 8, FALSE),
               totalArcPoints |-> GetUint32(buffer, 12, FALSE),
               numObjects |-> GetUint32(buffer, 16, FALSE),
               stringTableSize |-> GetUint32(buffer, 20, FALSE),
               hasTransform |-> (flags \div FLAG_HAS_TRANSFORM) % 2 # 0,
               hasBBox |-> (flags \div FLAG_HAS_BBOX) % 2 # 0]

ReadHeader(buffer) ==
    IF ~InBounds(buffer, 0, 4) THEN RangeError
    ELSE IF GetUint32(buffer, 0, FALSE) # MAGIC THEN BadMagicError
    ELSE IF ~InBounds(buffer, 4, 2) THEN RangeError
    ELSE LET version == GetUint16(buffer, 4, FALSE) IN
         IF version < MIN_SUPPORTED_VERSION \/ version > MAX_SUPPORTED_VERSION
         THEN VersionError(version)
         ELSE IF ~InBounds(buffer, 6, HeaderSize - 6) THEN RangeError
         ELSE LET flags == GetUint16(buffer, 6, FALSE) IN
              [kind |-> "ok",
               numArcs |-> GetUint32(buffer, 8, FALSE),
               totalArcPoints |-> GetUint32(buffer, 12, FALSE),
               numObjects |-> GetUint32(buffer, 16, FALSE),
               stringTableSize |-> GetUint32(buffer, 20, FALSE),
               hasTransform |-> (flags \div FLAG_HAS_TRANSFORM) % 2 # 0,
               hasBBox |-> (flags \div FLAG_HAS_BBOX) % 2 # 0]

\* The arc between the point offsets start and end (elements of arcOffsets) of
\* a coordinate array of len elements at byte offset off: the loops of decode
\* and getArc, for (j = start; j < end; j++), which do not run when start or
\* end is undefined.
ReadArc(buffer, hasTransform, off, len, start, end, le) ==
    [j \in 1..(IF IsNum(start) /\ IsNum(end) /\ end[1] > start[1]
               THEN end[1] - start[1] ELSE 0) |->
        LET p == start[1] + j - 1 IN
        IF hasTransform
        THEN << Int32At(buffer, off, len, 2 * p, le), Int32At(buffer, off, len, 2 * p + 1, le) >>
        ELSE << Float64At(buffer, off, len, 2 * p, le),
                Float64At(buffer, off, len, 2 * p + 1, le) >>]

(***************************************************************************)
(* decode (part_001 lines 44-164)                                          *)
(***************************************************************************)
decode(buffer, le) ==
    LET h == ReadHeader(buffer) IN
    IF h.kind = "error" THEN h
    ELSE
    LET afterTransform == HeaderSize + (IF h.hasTransform THEN 32 ELSE 0)
        afterBBox == afterTransform + (IF h.hasBBox THEN 32 ELSE 0)
    IN
    IF ~InBounds(buffer, HeaderSize, afterBBox - HeaderSize) THEN RangeError
    ELSE IF ~TypedArrayOk(buffer, afterBBox, h.stringTableSize, 1) THEN RangeError
    ELSE
    LET transform == IF h.hasTransform
                     THEN << << GetFloat64(buffer, HeaderSize, FALSE),
                                GetFloat64(buffer, HeaderSize + 8, FALSE) >>,
                             << GetFloat64(buffer, HeaderSize + 16, FALSE),
                                GetFloat64(buffer, HeaderSize + 24, FALSE) >> >>
                     ELSE Absent
        bbox == IF h.hasBBox
                THEN [i \in 1..4 |-> GetFloat64(buffer, afterTransform + 8 * (i - 1), FALSE)]
                ELSE Absent
        arcOffsetsStart == afterBBox + CeilTo4(h.stringTableSize)
        arcDataStart == arcOffsetsStart + (h.numArcs + 1) * 4
        bytesPerCoord == IF h.hasTransform THEN 4 ELSE 8
        arcDataLen == h.totalArcPoints * 2
        objectsStart == arcDataStart + arcDataLen * bytesPerCoord
    IN
    IF ~TypedArrayOk(buffer, arcOffsetsStart, h.numArcs + 1, 4) THEN RangeError
    ELSE IF ~TypedArrayOk(buffer, arcDataStart, arcDataLen, bytesPerCoord) THEN RangeError
    ELSE
    LET arcs == [i \in 1..h.numArcs |->
                   ReadArc(buffer, h.hasTransform, arcDataStart, arcDataLen,
                           Uint32At(buffer, arcOffsetsStart, h.numArcs + 1, i - 1, le),
                           Uint32At(buffer, arcOffsetsStart, h.numArcs + 1, i, le), le)]
    IN
    IF ~InBounds(buffer, objectsStart, 4) THEN RangeError
    ELSE
    LET objectsSize == GetUint32(buffer, objectsStart, FALSE) IN
    IF ~TypedArrayOk(buffer, objectsStart + 4, objectsSize, 1) THEN RangeError
    ELSE
    LET parsed == JSONParse(TextDecode(Slice(buffer, objectsStart + 4, objectsSize))) IN
    IF ~parsed.ok THEN JSONSyntaxError
    ELSE [kind |-> "ok",
          topology |-> [type |-> "Topology", objects |-> parsed.objects, arcs |-> arcs,
                        transform |-> transform, bbox |-> bbox]]

\* The offsets decode reaches while it reads a buffer whose header it accepts
\* (part_001 lines 72-143): where it reads the arc offsets, the arc data and
\* the length of the objects.
DecodeOffsets(buffer) ==
    LET h == ReadHeader(buffer)
        afterBBox == HeaderSize + (IF h.hasTransform THEN 32 ELSE 0)
                       + (IF h.hasBBox THEN 32 ELSE 0)
        arcOffsetsStart == afterBBox + CeilTo4(h.stringTableSize)
        arcDataStart == arcOffsetsStart + (h.numArcs + 1) * 4
        bytesPerCoord == IF h.hasTransform THEN 4 ELSE 8
    IN  [arcOffsetsStart |-> arcOffsetsStart, arcDataStart |-> arcDataStart,
         bytesPerCoord |-> bytesPerCoord,
         objectsStart |-> arcDataStart + h.totalArcPoints * 2 * bytesPerCoord]

(***************************************************************************)
(* BinaryTopologyView (part_001 lines 188-280)                             *)
(***************************************************************************)
\* The header as the constructor reads it (part_001 lines 198-222).
\* Mutant: the constructor does not check the version.
ReadViewHeader_NoVersionCheck(buffer) ==
    IF ~InBounds(buffer, 0, 4) THEN RangeError
    ELSE IF GetUint32(buffer, 0, FALSE) # MAGIC THEN BadMagicError
    ELSE IF ~InBounds(buffer, 4, HeaderSize - 4) THEN RangeError
    ELSE LET flags == GetUint16(buffer, 6, FALSE) IN
         [kind |-> "ok",
          numArcs |-> GetUint32(buffer, 8, FALSE),
          totalArcPoints |-> GetUint32(buffer, 12, FALSE),
          numObjects |-> GetUint32(buffer, 16, FALSE),
          stringTableSize |-> GetUint32(buffer, 20, FALSE),
          hasTransform |-> (flags \div FLAG_HAS_TRANSFORM) % 2 # 0,
          hasBBox |-> (flags \div FLAG_HAS_BBOX) % 2 # 0]

ReadViewHeader(buffer) ==
    IF ~InBounds(buffer, 0, 4) THEN RangeError
    ELSE IF GetUint32(buffer, 0, FALSE) # MAGIC THEN BadMagicError
    ELSE IF ~InBounds(buffer, 4, 2) THEN RangeError
    ELSE LET version == GetUint16(buffer, 4, FALSE) IN
         IF version < MIN_SUPPORTED_VERSION \/ version > MAX_SUPPORTED_VERSION
         THEN VersionError(version)
         ELSE IF ~InBounds(buffer, 6, HeaderSize - 6) THEN RangeError
         ELSE LET flags == GetUint16(buffer, 6, FALSE) IN
              [kind |-> "ok",
               numArcs |-> GetUint32(buffer, 8, FALSE),
               totalArcPoints |-> GetUint32(buffer, 12, FALSE),
               numObjects |-> GetUint32(buffer, 16, FALSE),
               stringTableSize |-> GetUint32(buffer, 20, FALSE),
               hasTransform |-> (flags \div FLAG_HAS_TRANSFORM) % 2 # 0,
               hasBBox |-> (flags \div FLAG_HAS_BBOX) % 2 # 0]

\* The offsets the constructor of BinaryTopologyView reaches (part_001 lines
\* 224-243).
ViewOffsets(buffer) ==
    LET h == ReadViewHeader(buffer)
        arcOffsetsStart == HeaderSize + (IF h.hasTransform THEN 32 ELSE 0)
                             + (IF h.hasBBox THEN 32 ELSE 0) + CeilTo4(h.stringTableSize)
    IN  [arcOffsetsStart |-> arcOffsetsStart,
         arcDataStart |-> arcOffsetsStart + (h.numArcs + 1) * 4,
         bytesPerCoord |-> IF h.hasTransform THEN 4 ELSE 8]

\* new BinaryTopologyView(buffer): the fields of the object, or the error.
NewBinaryTopologyView(buffer) ==
    LET h == ReadViewHeader(buffer) IN
    IF h.kind = "error" THEN h
    ELSE
    LET arcOffsetsStart == HeaderSize + (IF h.hasTransform THEN 32 ELSE 0)
                             + (IF h.hasBBox THEN 32 ELSE 0) + CeilTo4(h.stringTableSize)
        arcDataStart == arcOffsetsStart + (h.numArcs + 1) * 4
    IN
    IF ~TypedArrayOk(buffer, arcOffsetsStart, h.numArcs + 1, 4) THEN RangeError
    ELSE IF ~TypedArrayOk(buffer, arcDataStart, h.totalArcPoints * 2,
                          IF h.hasTransform THEN 4 ELSE 8) THEN RangeError
    ELSE [kind |-> "ok", buffer |-> buffer,
          hasTransform |-> h.hasTransform, numArcs |-> h.numArcs,
          arcOffsetsStart |-> arcOffsetsStart, arcDataStart |-> arcDataStart,
          arcDataLen |-> h.totalArcPoints * 2]

\* Mutant: the upper bound of the index check is off by one.
getArc_OffByOne(v, index, le) ==
    IF index < 0 \/ index > v.numArcs THEN IndexError(index)
    ELSE [kind |-> "ok",
          arc |-> ReadArc(v.buffer, v.hasTransform, v.arcDataStart, v.arcDataLen,
                          Uint32At(v.buffer, v.arcOffsetsStart, v.numArcs + 1, index, le),
                          Uint32At(v.buffer, v.arcOffsetsStart, v.numArcs + 1, index + 1, le),
                          le)]

getArc(v, index, le) ==
    IF index < 0 \/ index >= v.numArcs THEN IndexError(index)
    ELSE [kind |-> "ok",
          arc |-> ReadArc(v.buffer, v.hasTransform, v.arcDataStart, v.arcDataLen,
                          Uint32At(v.buffer, v.arcOffsetsStart, v.numArcs + 1, index, le),
                          Uint32At(v.buffer, v.arcOffsetsStart, v.numArcs + 1, index + 1, le),
                          le)]

getArcCount(v) == v.numArcs

\* function* iterArcs(): one step of the generator g = [state, i] over the
\* view v, as next() runs it to the following yield or to the end.
\* Mutant: the loop of the generator starts at 1.
IterStep_FromOne(g, v, le) ==
    LET i == IF g.state = "suspendedStart" THEN 1 ELSE g.i + 1
    IN  IF i < v.numArcs
        THEN [state |-> "suspendedYield", i |-> i,
              yielded |-> Append(g.yielded, getArc(v, i, le).arc)]
        ELSE [state |-> "completed", i |-> i, yielded |-> g.yielded]

IterStep(g, v, le) ==
    LET i == IF g.state = "suspendedStart" THEN 0 ELSE g.i + 1
    IN  IF i < v.numArcs
        THEN [state |-> "suspendedYield", i |-> i,
              yielded |-> Append(g.yielded, getArc(v, i, le).arc)]
        ELSE [state |-> "completed", i |-> i, yielded |-> g.yielded]

(***************************************************************************)
(* The inputs: topologies and hand-made buffers.                           *)
(***************************************************************************)
\* The p-th point (from 0) of a topology: small values, the extremes of the
\* 32-bit integers and values that fill several bytes, all different.
PointAt(p) ==
    IF p % 4 = 2 THEN << Num(2147483647 - (p - 2)), Num(MinInt32 + (p - 2)) >>
    ELSE IF p % 4 = 3 THEN << Num(-(70000 * p)), Num(65537 + p) >>
    ELSE << Num(p), Num(-p) >>

\* The arcs of the given lengths, e.g. << 2, 0, 1 >>.
ArcsOfShape(shape) ==
    [i \in 1..Len(shape) |->
        [j \in 1..shape[i] |-> PointAt(SumLen([k \in 1..i - 1 |-> Zeros(shape[k])]) + j - 1)]]

ArcShapes == UNION { [1..n -> 0..MaxArcLen] : n \in 0..MaxArcs }

\* Object maps in insertion order: none; "test"; "b" then "a"; "e-acute".
ObjectMaps ==
    { << >>,
      << [name |-> << 116, 101, 115, 116 >>, geom |-> 2] >>,
      << [name |-> << 98 >>, geom |-> 3], [name |-> << 97 >>, geom |-> 1] >>,
      << [name |-> << 233 >>, geom |-> 7] >> }

Transforms == { Absent, << << Num(2), Num(3) >>, << Num(-180), Num(-90) >> >> }

BBoxes == { Absent, << Num(-180), Num(-90), Num(180), Num(90) >> }

\* The topology of the test 'encode and decode simple topology':
\* arcs [[[0,0],[1,1],[2,0]],[[2,0],[3,1]]], one object "test", no transform.
ExampleTopology ==
    [type |-> "Topology",
     objects |-> << [name |-> << 116, 101, 115, 116 >>, geom |-> 2] >>,
     arcs |-> << << << Num(0), Num(0) >>, << Num(1), Num(1) >>, << Num(2), Num(0) >> >>,
                 << << Num(2), Num(0) >>, << Num(3), Num(1) >> >> >>,
     transform |-> Absent, bbox |-> Absent]

Topologies ==
    { [type |-> "Topology", objects |-> o, arcs |-> ArcsOfShape(sh),
       transform |-> t, bbox |-> b] :
        o \in ObjectMaps, sh \in ArcShapes, t \in Transforms, b \in BBoxes }
      \cup { ExampleTopology }

EmptyTopology ==
    [type |-> "Topology", objects |-> << >>, arcs |-> << >>,
     transform |-> Absent, bbox |-> Absent]

\* Buffers made by hand: a magic, a version and zeros up to the fixed header,
\* cut to a length.
RawMagics ==
    { << 84, 79, 80, 79 >>, << 18, 52, 86, 120 >>, << 85, 79, 80, 79 >>,
      << 84, 79, 80, 78 >>, << 79, 80, 79, 84 >>, << 0, 0, 0, 0 >> }

RawVersions == { 0, 1, 2, 5, 256, 999 }

RawLengths == (0..MaxRawLen) \cup { HeaderSize }

RawBuffers ==
    { SubSeq(m \o U16Bytes(v) \o Zeros(HeaderSize - 6), 1, n) :
        m \in RawMagics, v \in RawVersions, n \in RawLengths }

(***************************************************************************)
(* The state: one process that holds a topology or a hand-made buffer,     *)
(* encodes, and calls the readers.                                         *)
(***************************************************************************)
VARIABLES
    littleEndian,   \* the byte order of the platform's typed arrays
    topology,       \* the topology the caller holds
    buffer,         \* the ArrayBuffer the caller holds
    source,         \* "none": no buffer yet; "encode": buffer = encode(topology); "raw"
    view,           \* the BinaryTopologyView constructed over buffer, or the error
    result,         \* the last call and what it returned or threw
    kept,           \* the first arc a getArc call returned, with its index
    failedSince,    \* a getArc call has thrown since kept was returned
    iters,          \* the generators returned by iterArcs()
    second          \* a second BinaryTopologyView over buffer, and its last getArc

vars ==
    << littleEndian, topology, buffer, source, view, result, kept, failedSince, iters,
       second >>

Iterators == { 1, 2 }

NoView == [kind |-> "none"]
NoResult == [op |-> "none"]
NoKept == [index |-> -1, arc |-> << >>]
NoGenerator == [state |-> "none", i |-> 0, yielded |-> << >>]
NoSecond == [view |-> NoView, result |-> NoResult]

Init ==
    /\ littleEndian \in BOOLEAN
    /\ \/ topology \in Topologies /\ buffer = << >> /\ source = "none"
       \/ topology = EmptyTopology /\ buffer \in RawBuffers /\ source = "raw"
    /\ view = NoView
    /\ result = NoResult
    /\ kept = NoKept
    /\ failedSince = FALSE
    /\ iters = [it \in Iterators |-> NoGenerator]
    /\ second = NoSecond

Encode ==
    /\ source = "none"
    /\ buffer' = encode(topology, littleEndian)
    /\ source' = "encode"
    /\ UNCHANGED << littleEndian, topology, view, result, kept, failedSince, iters, second >>

\* The bytes encode leaves as the zeros of the new ArrayBuffer: after the
\* string table and before the arc data (0-based offsets).
PaddingOffsets(L) ==
    { o \in 0..L.byteLength - 1 :
        \/ L.stringTableStart + L.stringTableSize <= o /\ o < L.arcOffsetsStart
        \/ L.arcOffsetsStart + L.arcOffsetsSize <= o /\ o < L.arcDataStart }

\* Mutant: the buffer of the second call is not zero-filled, its padding holds
\* whatever the memory held.
EncodeAgain_StaleMemory ==
    /\ source = "encode"
    /\ \E fill \in { 0, 255 } :
          result' = [op |-> "encode", index |-> 0,
                     out |-> [kind |-> "ok",
                              buffer |->
                                 LET b == encode(topology, littleEndian)
                                     pad == PaddingOffsets(EncodeLayout(topology))
                                 IN  [i \in 1..Len(b) |->
                                         IF i - 1 \in pad THEN fill ELSE b[i]]]]
    /\ UNCHANGED << littleEndian, topology, buffer, source, view, kept, failedSince, iters,
                    second >>

\* A second encode(topology) of a topology equal to the one already encoded;
\* the caller keeps both buffers.
EncodeAgain ==
    /\ source = "encode"
    /\ result' = [op |-> "encode", index |-> 0,
                  out |-> [kind |-> "ok", buffer |-> encode(topology, littleEndian)]]
    /\ UNCHANGED << littleEndian, topology, buffer, source, view, kept, failedSince, iters,
                    second >>

GetMemoryStats ==
    /\ source # "none"
    /\ result' = [op |-> "getMemoryStats", index |-> 0, out |-> getMemoryStats(buffer)]
    /\ UNCHANGED << littleEndian, topology, buffer, source, view, kept, failedSince, iters,
                    second >>

\* Mutant: a decode that returns also overwrites the last byte of the buffer
\* with zero.
Decode_Consuming ==
    /\ source # "none"
    /\ result' = [op |-> "decode", index |-> 0, out |-> decode(buffer, littleEndian)]
    /\ buffer' = IF decode(buffer, littleEndian).kind = "ok"
                 THEN [i \in 1..Len(buffer) |-> IF i = Len(buffer) THEN 0 ELSE buffer[i]]
                 ELSE buffer
    /\ UNCHANGED << littleEndian, topology, source, view, kept, failedSince, iters, second >>

Decode ==
    /\ source # "none"
    /\ result' = [op |-> "decode", index |-> 0, out |-> decode(buffer, littleEndian)]
    /\ UNCHANGED << littleEndian, topology, buffer, source, view, kept, failedSince, iters, second >>

GetVersion ==
    /\ source # "none"
    /\ result' = [op |-> "getVersion", index |-> 0, out |-> getVersion(buffer)]
    /\ UNCHANGED << littleEndian, topology, buffer, source, view, kept, failedSince, iters, second >>

IsCompatibleVersion ==
    /\ source # "none"
    /\ result' = [op |-> "isCompatibleVersion", index |-> 0,
                  out |-> isCompatibleVersion(buffer)]
    /\ UNCHANGED << littleEndian, topology, buffer, source, view, kept, failedSince, iters, second >>

\* new BinaryTopologyView(buffer); when the constructor throws there is no
\* object, and view records the error.
NewView ==
    /\ source # "none"
    /\ view.kind = "none"
    /\ view' = NewBinaryTopologyView(buffer)
    /\ UNCHANGED << littleEndian, topology, buffer, source, result, kept, failedSince, iters, second >>

GetArcCount ==
    /\ view.kind = "ok"
    /\ result' = [op |-> "getArcCount", index |-> 0,
                  out |-> [kind |-> "ok", value |-> getArcCount(view)]]
    /\ UNCHANGED << littleEndian, topology, buffer, source, view, kept, failedSince, iters, second >>

GetArc(index) ==
    /\ view.kind = "ok"
    /\ LET out == getArc(view, index, littleEndian) IN
       /\ result' = [op |-> "getArc", index |-> index, out |-> out]
       /\ kept' = IF out.kind = "ok" /\ kept = NoKept
                  THEN [index |-> index, arc |-> out.arc] ELSE kept
       /\ failedSince' = (failedSince \/ (out.kind = "error" /\ kept # NoKept))
    /\ UNCHANGED << littleEndian, topology, buffer, source, view, iters, second >>

\* it = view.iterArcs(): a fresh generator, whatever it held before.
IterArcs(it) ==
    /\ view.kind = "ok"
    /\ iters[it].state # "suspendedStart"
    /\ iters' = [iters EXCEPT ![it] = [state |-> "suspendedStart", i |-> 0, yielded |-> << >>]]
    /\ UNCHANGED << littleEndian, topology, buffer, source, view, result, kept, failedSince, second >>

\* Mutant: the position of the loop is kept in the view, so a step of one
\* generator moves every generator that is suspended at a yield.
IterNext_SharedCursor(it) ==
    /\ view.kind = "ok"
    /\ iters[it].state \in { "suspendedStart", "suspendedYield" }
    /\ iters' = [j \in Iterators |->
                    IF j = it THEN IterStep(iters[it], view, littleEndian)
                    ELSE IF iters[j].state = "suspendedYield"
                         THEN [iters[j] EXCEPT !.i = @ + 1]
                         ELSE iters[j]]
    /\ UNCHANGED << littleEndian, topology, buffer, source, view, result, kept, failedSince,
                    second >>

\* it.next() on a generator that has not finished.
IterNext(it) ==
    /\ view.kind = "ok"
    /\ iters[it].state \in { "suspendedStart", "suspendedYield" }
    /\ iters' = [iters EXCEPT ![it] = IterStep(iters[it], view, littleEndian)]
    /\ UNCHANGED << littleEndian, topology, buffer, source, view, result, kept, failedSince, second >>

ArcIndexes == (-2)..(MaxArcs + 1)

\* A second new BinaryTopologyView(buffer) over the buffer the first view reads.
NewSecondView ==
    /\ source # "none"
    /\ second.view.kind = "none"
    /\ second' = [second EXCEPT !.view = NewBinaryTopologyView(buffer)]
    /\ UNCHANGED << littleEndian, topology, buffer, source, view, result, kept, failedSince,
                    iters >>

\* getArc(index) of the second view.
SecondGetArc(index) ==
    /\ second.view.kind = "ok"
    /\ second' = [second EXCEPT !.result =
                     [op |-> "getArc", index |-> index,
                      out |-> getArc(second.view, index, littleEndian)]]
    /\ UNCHANGED << littleEndian, topology, buffer, source, view, result, kept, failedSince,
                    iters >>

\* The caller damages a buffer encode made before handing it to the readers:
\* element k of the arc-offset table is overwritten with another small value,
\* as a typed array of the platform stores it.
TamperOffset(k, v) ==
    /\ source = "encode"
    /\ LET L == EncodeLayout(topology) IN
       /\ k \in 0..L.numArcs
       /\ v \in 0..(L.totalArcPoints + 1)
       /\ buffer' = Write(buffer, L.arcOffsetsStart + 4 * k,
                          ByteOrder(U32Bytes(v), littleEndian))
    /\ buffer' # buffer
    /\ source' = "corrupt"
    /\ UNCHANGED << littleEndian, topology, view, result, kept, failedSince, iters, second >>

\* The places a damaged buffer is cut at: the starts of the arc data and of
\* the objects section, the end of the length of the objects, the last byte.
CutPoints(L) == { L.arcDataStart, L.objectsStart, L.objectsStart + 4, L.byteLength - 1 }

\* The caller keeps the first n bytes only (buffer.slice(0, n)).
Truncate(n) ==
    /\ source = "encode"
    /\ n \in CutPoints(EncodeLayout(topology))
    /\ n < Len(buffer)
    /\ buffer' = SubSeq(buffer, 1, n)
    /\ source' = "corrupt"
    /\ UNCHANGED << littleEndian, topology, view, result, kept, failedSince, iters, second >>

\* The codec and the version gate.
Next ==
    \/ Encode
    \/ EncodeAgain
    \/ Decode
    \/ GetVersion
    \/ IsCompatibleVersion
    \/ GetMemoryStats
    \/ NewView
    \/ GetArcCount

Spec == Init /\ [][Next]_vars

\* Random access through a view.
NextView ==
    \/ Encode
    \/ NewView
    \/ \E index \in ArcIndexes : GetArc(index)

SpecView == Init /\ [][NextView]_vars

\* Iteration through a view.
NextIter ==
    \/ Encode
    \/ NewView
    \/ \E it \in Iterators : IterArcs(it)
    \/ \E it \in Iterators : IterNext(it)

SpecIter == Init /\ [][NextIter]_vars

\* Damaged buffers.
NextCorrupt ==
    \/ Encode
    \/ \E k \in 0..MaxArcs : \E v \in 0..(MaxArcs * MaxArcLen + 1) : TamperOffset(k, v)
    \/ \E n \in 0..Len(buffer) : Truncate(n)
    \/ Decode

SpecCorrupt == Init /\ [][NextCorrupt]_vars

\* Two views over one buffer: iterations through the first, random access
\* through the second, in any order.
NextShared ==
    \/ Encode
    \/ NewView
    \/ NewSecondView
    \/ \E it \in Iterators : IterArcs(it)
    \/ \E it \in Iterators : IterNext(it)
    \/ \E index \in ArcIndexes : SecondGetArc(index)

\* The callers of SpecShared hold a topology without bbox, with no object or
\* with the object "test": the arc sections are those of every topology.
InitShared ==
    /\ Init
    /\ source = "none"
    /\ topology.bbox = Absent
    /\ topology.objects \in { << >>, ExampleTopology.objects }

SpecShared == InitShared /\ [][NextShared]_vars

\* Every call of the library over one buffer: the codec, the version gate, a
\* view with random access and one iteration.
NextFrame ==
    \/ Encode
    \/ Decode
    \/ GetVersion
    \/ IsCompatibleVersion
    \/ NewView
    \/ GetArcCount
    \/ \E index \in ArcIndexes : GetArc(index)
    \/ IterArcs(1)
    \/ IterNext(1)

\* The callers of SpecFrame hold a hand-made buffer, or a topology without
\* bbox, with no object or with the object "test".
InitFrame ==
    /\ Init
    /\ \/ source = "raw"
       \/ /\ topology.bbox = Absent
          /\ topology.objects \in { << >>, ExampleTopology.objects }

SpecFrame == InitFrame /\ [][NextFrame]_vars

(***************************************************************************)
(* Properties.                                                             *)
(***************************************************************************)
MagicBytes == << 84, 79, 80, 79 >>

Encoded == source = "encode"
Decoded == result.op = "decode"
DecodedOk == Decoded /\ result.out.kind = "ok"

\* C1. Round trip: decoding the buffer encode made of a topology completes
\* without error and returns a topology equal to it (arcs, objects, transform,
\* bbox).
C1_RoundTrip ==
    (Encoded /\ Decoded) =>
        (result.out.kind = "ok" /\ result.out.topology = topology)

\* C2. Quantization fidelity: when the topology has a transform, decode of its
\* encoding returns every arc with every coordinate equal to the original
\* 32-bit integer, at the same arc index and point position.
C2_QuantizationFidelity ==
    (Encoded /\ Decoded /\ topology.transform # Absent) =>
        /\ result.out.kind = "ok"
        /\ Len(result.out.topology.arcs) = Len(topology.arcs)
        /\ \A i \in 1..Len(topology.arcs) :
              /\ Len(result.out.topology.arcs[i]) = Len(topology.arcs[i])
              /\ \A j \in 1..Len(topology.arcs[i]) :
                    /\ result.out.topology.arcs[i][j][1] = topology.arcs[i][j][1]
                    /\ result.out.topology.arcs[i][j][2] = topology.arcs[i][j][2]

\* C2 witness: a quantized topology whose arcs hold the largest and the
\* smallest 32-bit integer has been decoded.
C2_Witness ==
    /\ Encoded /\ DecodedOk /\ topology.transform # Absent
    /\ \E i \in 1..Len(topology.arcs) : \E j \in 1..Len(topology.arcs[i]) :
          topology.arcs[i][j] = << Num(2147483647), Num(MinInt32) >>

\* C3. View/Decoder equivalence: over a buffer made by encode, the view is
\* constructed, decode returns, and getArc(i) of the view equals arcs[i] of the
\* decoded topology for every index i of an arc.
C3_ViewDecoderEquivalence ==
    (Encoded /\ Decoded /\ view.kind # "none") =>
        /\ view.kind = "ok"
        /\ result.out.kind = "ok"
        /\ \A i \in 0..getArcCount(view) - 1 :
              getArc(view, i, littleEndian) =
                  [kind |-> "ok", arc |-> result.out.topology.arcs[i + 1]]

\* C4. Constructing a view over the encoding of a topology succeeds and its
\* getArcCount() is the number of arcs of the topology.
C4_ViewArcCount ==
    (Encoded /\ view.kind # "none") =>
        (view.kind = "ok" /\ getArcCount(view) = Len(topology.arcs))

\* C5. Boundary: a topology without arcs is encoded and decoded without error,
\* to an empty arc list and the original objects.
C5_EmptyArcs ==
    (Encoded /\ Decoded /\ topology.arcs = << >>) =>
        /\ result.out.kind = "ok"
        /\ result.out.topology.arcs = << >>
        /\ result.out.topology.objects = topology.objects

\* C6. getArc(index) on a constructed view throws the out-of-bounds error for
\* every index < 0 and every index >= getArcCount(), returns the arc for every
\* index in between, and a call that threw leaves the view usable: a later call
\* with a valid index returns the same arc as the earlier call with that index.
C6_GetArcBounds ==
    result.op = "getArc" =>
        /\ view.kind = "ok"
        /\ (result.index < 0 \/ result.index >= getArcCount(view))
              => result.out = IndexError(result.index)
        /\ (result.index >= 0 /\ result.index < getArcCount(view))
              => /\ result.out.kind = "ok"
                 /\ result.out.arc = topology.arcs[result.index + 1]
                 /\ kept.index = result.index => result.out.arc = kept.arc

\* C6 witness: a valid call after a call that threw returns the arc, of two
\* points, that the first call with that index returned.
C6_Witness ==
    /\ result.op = "getArc" /\ result.out.kind = "ok"
    /\ failedSince /\ kept.index = result.index
    /\ Len(result.out.arc) = 2

\* C7. Every generator iterArcs() returned has yielded the arcs getArc(0),
\* getArc(1), ... in that order, at most getArcCount() of them, exactly
\* getArcCount() once it has finished, and none before its first step,
\* whatever the progress of the other generators of the view.
C7_IterArcs ==
    \A it \in Iterators :
        LET g == iters[it] IN
        g.state # "none" =>
            /\ view.kind = "ok"
            /\ Len(g.yielded) <= getArcCount(view)
            /\ g.state = "completed" => Len(g.yielded) = getArcCount(view)
            /\ g.state = "suspendedStart" => g.yielded = << >>
            /\ g.state = "suspendedYield" => Len(g.yielded) = g.i + 1
            /\ \A k \in 1..Len(g.yielded) :
                  getArc(view, k - 1, littleEndian) = [kind |-> "ok", arc |-> g.yielded[k]]

\* C7 witness: one generator has finished after two arcs and a fresh one over
\* the same view has yielded its first arc.
C7_Witness ==
    /\ iters[1].state = "completed" /\ Len(iters[1].yielded) = 2
    /\ iters[2].state = "suspendedYield" /\ Len(iters[2].yielded) = 1
    /\ iters[2].yielded[1] # iters[1].yielded[2]

\* C8. getVersion never throws; it returns null when the buffer has fewer than
\* 6 bytes or its first 4 bytes are not the magic, and otherwise the unsigned
\* big-endian 16-bit value of bytes 4-5.
C8_GetVersion ==
    result.op = "getVersion" =>
        /\ result.out.kind = "ok"
        /\ result.out.value =
              IF Len(buffer) < 6 \/ SubSeq(buffer, 1, 4) # MagicBytes
              THEN Null
              ELSE Num(buffer[5] * 256 + buffer[6])

\* C8 witness: a buffer of exactly 6 bytes with the magic gave the version 256
\* (bytes 1, 0).
C8_Witness ==
    /\ result.op = "getVersion" /\ Len(buffer) = 6
    /\ result.out = [kind |-> "ok", value |-> Num(256)]

\* C9. isCompatibleVersion never throws and returns true exactly when
\* getVersion returns a version v, not null, within
\* MIN_SUPPORTED_VERSION <= v <= MAX_SUPPORTED_VERSION.
C9_IsCompatibleVersion ==
    result.op = "isCompatibleVersion" =>
        /\ result.out.kind = "ok"
        /\ result.out.value =
              LET v == getVersion(buffer) IN
              /\ v.kind = "ok"
              /\ v.value # Null
              /\ MIN_SUPPORTED_VERSION <= v.value[1]
              /\ v.value[1] <= MAX_SUPPORTED_VERSION

\* C9 witness: false for a buffer with the magic and the version 0, below the
\* supported range.
C9_Witness ==
    /\ result.op = "isCompatibleVersion"
    /\ result.out = [kind |-> "ok", value |-> FALSE]
    /\ getVersion(buffer) = [kind |-> "ok", value |-> Num(0)]

\* C10. decode throws the bad-magic error, and returns no topology, for every
\* buffer whose first 4 bytes are not the magic.
C10_DecodeBadMagic ==
    (Decoded /\ Len(buffer) >= 4 /\ SubSeq(buffer, 1, 4) # MagicBytes) =>
        result.out = BadMagicError

\* C10 witness: decode has thrown the bad-magic error on a buffer that holds
\* the bytes of the magic in the reverse order.
C10_Witness ==
    /\ Decoded /\ result.out = BadMagicError
    /\ Len(buffer) >= 4 /\ SubSeq(buffer, 1, 4) = << 79, 80, 79, 84 >>

\* The version field of a buffer of 6 bytes or more, as the format defines it.
HasMagic == Len(buffer) >= 4 /\ SubSeq(buffer, 1, 4) = MagicBytes
VersionField == buffer[5] * 256 + buffer[6]
VersionSupported ==
    MIN_SUPPORTED_VERSION <= VersionField /\ VersionField <= MAX_SUPPORTED_VERSION

\* The number a string of decimal digits (character codes) denotes.
RECURSIVE DecimalValue(_)
DecimalValue(d) ==
    IF d = << >> THEN 0
    ELSE 10 * DecimalValue(SubSeq(d, 1, Len(d) - 1)) + (d[Len(d)] - 48)

\* C11. decode throws the version error for every buffer with the magic whose
\* version field is outside [MIN_SUPPORTED_VERSION, MAX_SUPPORTED_VERSION]; the
\* message holds the version in decimal and the range as 'MIN-MAX' ('5' and
\* '1-1' for version 5).
C11_DecodeVersionError ==
    (Decoded /\ Len(buffer) >= 6 /\ HasMagic /\ ~VersionSupported) =>
        /\ result.out.kind = "error"
        /\ result.out.error.message = "Unsupported binary format version"
        /\ LET m == result.out.error.args IN
           /\ Len(m) = 6
           /\ \A k \in 1..Len(m[1]) : m[1][k] \in 48..57
           /\ DecimalValue(m[1]) = VersionField
           /\ SubSeq(m, 3, 5) = << << 49 >>, "-", << 49 >> >>
           /\ VersionField = 5 => m[1] = << 53 >>

\* C11 witness: decode has thrown on a 24-byte buffer with the magic and the
\* version 5.
C11_Witness ==
    /\ Decoded /\ Len(buffer) = HeaderSize /\ HasMagic /\ VersionField = 5
    /\ result.out.kind = "error"

\* The two errors of the version gate, told by their messages.
IsBadMagic(out) == out = BadMagicError
IsVersionError(out) ==
    /\ out.kind = "error"
    /\ out.error.message = "Unsupported binary format version"

\* C12. decode of a buffer shorter than 6 bytes (0 to 3 bytes, or 4 to 5 bytes
\* that start with the magic) throws the same error as for a bad magic.
C12_DecodeShortBuffer ==
    (Decoded /\ Len(buffer) < 6 /\ (Len(buffer) < 4 \/ HasMagic)) =>
        IsBadMagic(result.out)

\* C13. The constructor of BinaryTopologyView throws the bad-magic error
\* exactly when decode throws it over the same buffer, and the version error
\* exactly when decode throws it, with the same message; a view that was
\* constructed throws neither from getArcCount nor from getArc.
C13_ViewSameGate ==
    /\ (Decoded /\ view.kind # "none") =>
          /\ IsBadMagic(view) <=> IsBadMagic(result.out)
          /\ IsVersionError(view) <=> IsVersionError(result.out)
          /\ IsVersionError(view) => view = result.out
    /\ view.kind = "ok" =>
          /\ result.op = "getArcCount" => result.out.kind = "ok"
          /\ \A index \in ArcIndexes :
                LET out == getArc(view, index, littleEndian) IN
                ~IsBadMagic(out) /\ (out.kind = "error" => ~IsVersionError(out))

\* C13 witness: decode and the constructor have both thrown the version error
\* over a buffer with the version 999.
C13_Witness ==
    /\ Decoded /\ IsVersionError(view) /\ IsVersionError(result.out)
    /\ Len(buffer) >= 6 /\ VersionField = 999

\* C14. isCompatibleVersion is a sound pre-flight check: over every buffer on
\* which it returns true, decode returns a topology and does not throw.
C14_PreflightSound ==
    (Decoded /\ isCompatibleVersion(buffer) = [kind |-> "ok", value |-> TRUE]) =>
        result.out.kind = "ok"

\* C15. The read path fails in two ways only: whenever decode or the
\* constructor of BinaryTopologyView throws, over any buffer, the error is the
\* bad-magic error or the version error; the index error comes from getArc
\* alone.
C15_TwoFailureKinds ==
    /\ (Decoded /\ result.out.kind = "error") =>
          (IsBadMagic(result.out) \/ IsVersionError(result.out))
    /\ view.kind = "error" => (IsBadMagic(view) \/ IsVersionError(view))
    /\ (result.op # "none" /\ result.out.kind = "error"
          /\ result.out.error.message = "Arc index out of bounds")
          => result.op = "getArc"

\* The arc-offset table of the buffer, of n + 1 entries, as the platform reads
\* it, and the defects of structure of a damaged buffer.
OffsetEntry(k) ==
    LET L == EncodeLayout(topology) IN
    U32Value(ByteOrder(Slice(buffer, L.arcOffsetsStart + 4 * k, 4), littleEndian))

StructureViolated ==
    LET L == EncodeLayout(topology) IN
    \/ Len(buffer) < L.byteLength
    \/ \E k \in 0..L.numArcs - 1 : OffsetEntry(k) > OffsetEntry(k + 1)
    \/ \E k \in 0..L.numArcs : OffsetEntry(k) > L.totalArcPoints
    \/ OffsetEntry(L.numArcs) # L.totalArcPoints

\* C16. No partial decode: over a buffer with the magic and a supported
\* version whose arc-offset table decreases somewhere, holds an offset above
\* totalArcPoints or does not end with totalArcPoints, or whose sections reach
\* past its end, decode throws and returns no topology.
C16_NoPartialDecode ==
    (source = "corrupt" /\ Decoded /\ StructureViolated) =>
        result.out.kind = "error"

\* The fields of the header of the buffer and the place of its arc-offset
\* table, as the format lays them out.
NumArcsField == U32Value(Slice(buffer, 8, 4))
TotalArcPointsField == U32Value(Slice(buffer, 12, 4))
OffsetTableStart ==
    LET flags == U16Value(Slice(buffer, 6, 2)) IN
    HeaderSize + 32 * (flags % 2) + 32 * ((flags \div 2) % 2)
        + CeilTo4(U32Value(Slice(buffer, 20, 4)))
TableEntry(k) ==
    U32Value(ByteOrder(Slice(buffer, OffsetTableStart + 4 * k, 4), littleEndian))

\* C17. Offset monotonicity: in every buffer encode made, the arc-offset table
\* has numArcs + 1 entries, entry 0 is 0, the entries never decrease, entry
\* i + 1 minus entry i is the number of points of arc i, and the last entry is
\* the totalArcPoints field of the header.
C17_OffsetMonotonicity ==
    Encoded =>
        LET n == Len(topology.arcs) IN
        /\ NumArcsField = n
        /\ OffsetTableStart + 4 * (n + 1) <= EncodeLayout(topology).arcDataStart
        /\ TableEntry(0) = 0
        /\ \A i \in 0..n - 1 :
              /\ TableEntry(i) <= TableEntry(i + 1)
              /\ TableEntry(i + 1) - TableEntry(i) = Len(topology.arcs[i + 1])
        /\ TableEntry(n) = TotalArcPointsField

\* C17 witness: the encoding of two arcs of 1 and 2 points, with the table
\* 0, 1, 3.
C17_Witness ==
    /\ Encoded /\ Len(topology.arcs) = 2
    /\ Len(topology.arcs[1]) = 1 /\ Len(topology.arcs[2]) = 2
    /\ TableEntry(1) = 1 /\ TableEntry(2) = 3

\* C18. Every fixed-width field of a buffer encode made is big-endian on any
\* platform: the header fields, the transform and the bbox, the entries of the
\* arc-offset table, the arc coordinates and the length of the objects.
C18_BigEndian ==
    Encoded =>
        LET L == EncodeLayout(topology)
            offsets == ArcPointOffsets(topology.arcs)
            coords == ArcCoordinates(topology.arcs)
        IN
        /\ Slice(buffer, 0, 4) = U32Bytes(MAGIC)
        /\ Slice(buffer, 4, 2) = U16Bytes(VERSION)
        /\ Slice(buffer, 8, 4) = U32Bytes(Len(topology.arcs))
        /\ Slice(buffer, 12, 4) = U32Bytes(SumLen(topology.arcs))
        /\ Slice(buffer, 16, 4) = U32Bytes(Len(topology.objects))
        /\ L.hasTransform =>
              /\ Slice(buffer, HeaderSize, 8) = F64Bytes(topology.transform[1][1][1])
              /\ Slice(buffer, HeaderSize + 24, 8) = F64Bytes(topology.transform[2][2][1])
        /\ L.hasBBox =>
              \A i \in 1..4 :
                 Slice(buffer, L.stringTableStart - 32 + 8 * (i - 1), 8)
                     = F64Bytes(topology.bbox[i][1])
        /\ \A k \in 1..Len(offsets) :
              Slice(buffer, L.arcOffsetsStart + 4 * (k - 1), 4) = U32Bytes(offsets[k])
        /\ \A k \in 1..Len(coords) :
              Slice(buffer, L.arcDataStart + L.bytesPerCoord * (k - 1), L.bytesPerCoord)
                  = IF L.hasTransform THEN I32Bytes(coords[k][1]) ELSE F64Bytes(coords[k][1])
        /\ Slice(buffer, L.objectsStart, 4) = U32Bytes(L.objectsSize)

\* C19. Optional fields across a round trip: decode of the encoding of a
\* topology returns a topology that has a transform exactly when the original
\* has one, with the same scale and translate, and a bbox exactly when the
\* original has one, with the same four bounds in the same order.
C19_OptionalFields ==
    (Encoded /\ Decoded) =>
        /\ result.out.kind = "ok"
        /\ (result.out.topology.transform = Absent) <=> (topology.transform = Absent)
        /\ result.out.topology.transform = topology.transform
        /\ (result.out.topology.bbox = Absent) <=> (topology.bbox = Absent)
        /\ result.out.topology.bbox = topology.bbox

\* C20. Reads over a shared buffer do not interfere: with two views over one
\* buffer, two iterations in progress through the first and getArc calls
\* through the second in any order, the views stay as they were made, every
\* getArc call has the result a fresh view over the buffer gives for that
\* index, and every iteration has yielded arcs 0, 1, ... in order, all
\* getArcCount() of them once it has finished.
C20_SharedReads ==
    LET alone == NewBinaryTopologyView(buffer) IN
    /\ view.kind = "ok" => view = alone
    /\ second.view.kind = "ok" => second.view = alone
    /\ second.result.op = "getArc" =>
          second.result.out = getArc(alone, second.result.index, littleEndian)
    /\ \A it \in Iterators :
          LET g == iters[it] IN
          g.state # "none" =>
             /\ Len(g.yielded) <= getArcCount(alone)
             /\ g.state = "suspendedStart" => g.yielded = << >>
             /\ g.state = "suspendedYield" => Len(g.yielded) = g.i + 1
             /\ g.state = "completed" => Len(g.yielded) = getArcCount(alone)
             /\ \A k \in 1..Len(g.yielded) :
                   g.yielded[k] = getArc(alone, k - 1, littleEndian).arc

\* C20 witness: the first iteration has yielded two arcs and the second one
\* arc of the first view, and getArc(1) of the second view has returned an arc
\* of two points.
C20_Witness ==
    /\ iters[1].state = "suspendedYield" /\ Len(iters[1].yielded) = 2
    /\ iters[2].state = "suspendedYield" /\ Len(iters[2].yielded) = 1
    /\ second.result.op = "getArc" /\ second.result.index = 1
    /\ second.result.out.kind = "ok" /\ Len(second.result.out.arc) = 2

\* C21. The codec never writes to its inputs: encode leaves the topology as
\* it was, and decode, getVersion, isCompatibleVersion, the constructor of
\* BinaryTopologyView, getArc, getArcCount and the steps of iterArcs leave
\* the topology and every byte of the buffer as they were, whether they
\* return or throw.
C21_InputsUnchanged ==
    [][/\ topology' = topology
       /\ source # "none" => (buffer' = buffer /\ source' = source)]_vars

\* C21 witness: getArc has thrown over a view of an encoded buffer after an
\* iteration through the view has finished, and the buffer is still the
\* encoding of the topology.
C21_Witness ==
    /\ Encoded /\ view.kind = "ok"
    /\ result.op = "getArc" /\ result.out.kind = "error"
    /\ iters[1].state = "completed" /\ Len(iters[1].yielded) = 2
    /\ buffer = encode(topology, littleEndian)

C23_MemoryStats ==
    (Encoded /\ result.op = "getMemoryStats") =>
        /\ result.out.kind = "ok"
        /\ result.out.totalBytes = Len(buffer)
        /\ result.out.headerBytes > 0
        /\ result.out.arcBytes > 0
        /\ result.out.objectBytes > 0
        /\ result.out.totalBytes
              = result.out.headerBytes + result.out.arcBytes + result.out.objectBytes

\* C23 witness: the statistics of the encoding of a topology without arcs and
\* without objects, whose arc section is the 4 bytes of the offset table.
C23_Witness ==
    /\ Encoded /\ result.op = "getMemoryStats" /\ result.out.kind = "ok"
    /\ topology.arcs = << >> /\ topology.objects = << >>
    /\ result.out.arcBytes = 4

\* The layout the format prescribes for the topology: sections one after the
\* other, the string table alone padded, to a multiple of 4.
Utf8Length(name) ==
    SumLen([i \in 1..Len(name) |-> IF name[i] < 128 THEN << 0 >> ELSE << 0, 0 >>])
StringTableLength ==
    SumLen([i \in 1..Len(topology.objects) |->
               Zeros(Utf8Length(topology.objects[i].name) + 1)])
ContiguousArcDataStart ==
    HeaderSize + (IF topology.transform # Absent THEN 32 ELSE 0)
        + (IF topology.bbox # Absent THEN 32 ELSE 0)
        + 4 * ((StringTableLength + 3) \div 4)
        + 4 * (Len(topology.arcs) + 1)
ContiguousObjectsStart ==
    ContiguousArcDataStart
        + SumLen(topology.arcs) * 2 * (IF topology.transform # Absent THEN 4 ELSE 8)

\* C24. Contiguous layout: in every buffer encode made the only padding is
\* that of the string table, so the arc data starts right after the
\* arc-offset table, at 24 + 32*[transform] + 32*[bbox] + padded string table
\* + 4*(numArcs+1), and the length of the objects right after the arc data.
C24_ContiguousLayout ==
    Encoded =>
        LET L == EncodeLayout(topology) IN
        /\ L.arcDataStart = ContiguousArcDataStart
        /\ L.objectsStart = ContiguousObjectsStart
        /\ Len(buffer) = ContiguousObjectsStart + 4 + L.objectsSize
        /\ U32Value(Slice(buffer, ContiguousObjectsStart, 4)) = L.objectsSize

C26_LayoutAgreement ==
    Encoded =>
        LET L == EncodeLayout(topology)
            d == DecodeOffsets(buffer)
            v == ViewOffsets(buffer)
        IN
        /\ d.arcDataStart = L.arcDataStart
        /\ v.arcDataStart = L.arcDataStart
        /\ d.objectsStart = L.objectsStart
        /\ d.arcDataStart % d.bytesPerCoord = 0
        /\ v.arcDataStart % v.bytesPerCoord = 0

\* C27. Every buffer encode made passes the version gate: getVersion returns
\* VERSION, VERSION lies in [MIN_SUPPORTED_VERSION, MAX_SUPPORTED_VERSION],
\* and isCompatibleVersion returns true.
C27_EncodedPassesGate ==
    /\ MIN_SUPPORTED_VERSION <= VERSION /\ VERSION <= MAX_SUPPORTED_VERSION
    /\ (Encoded /\ result.op = "getVersion") =>
          result.out = [kind |-> "ok", value |-> Num(VERSION)]
    /\ (Encoded /\ result.op = "isCompatibleVersion") =>
          result.out = [kind |-> "ok", value |-> TRUE]

\* C27 witness: isCompatibleVersion has returned true over the encoding of a
\* topology with arcs, whose bytes 4-5 hold the version.
C27_Witness ==
    /\ Encoded /\ result.op = "isCompatibleVersion" /\ result.out.kind = "ok"
    /\ result.out.value
    /\ Len(topology.arcs) = 2 /\ Slice(buffer, 4, 2) = << 0, 1 >>

\* C28. decode and the constructor of BinaryTopologyView check the magic
\* before the version, and read nothing after the version before both checks
\* pass: a buffer of 6 bytes or more with a wrong magic and an unsupported
\* version gets the bad-magic error, a buffer of 4 or 5 bytes with a wrong
\* magic too, and a buffer of 6 bytes or more with the magic and an unsupported
\* version gets the version error, however short it is.
C28_MagicBeforeVersion ==
    LET WrongMagic == Len(buffer) >= 4 /\ ~HasMagic
        BadVersion == Len(buffer) >= 6 /\ ~VersionSupported
    IN
    /\ (Decoded /\ WrongMagic) => IsBadMagic(result.out)
    /\ (view.kind # "none" /\ WrongMagic) => IsBadMagic(view)
    /\ (Decoded /\ HasMagic /\ BadVersion) => IsVersionError(result.out)
    /\ (view.kind # "none" /\ HasMagic /\ BadVersion) => IsVersionError(view)

\* C28 witness: decode and the constructor have thrown the bad-magic error
\* over a buffer of 6 bytes with a wrong magic and the version 999.
C28_Witness ==
    /\ Decoded /\ IsBadMagic(result.out) /\ IsBadMagic(view)
    /\ Len(buffer) = 6 /\ ~HasMagic /\ VersionField = 999

=============================================================================
